---- MODULE Spec2Model ----
(***************************************************************************)
(* Model of MultiAPIGeocoder (src/import-long-lat.py): the alternating     *)
(* fallback geocoder over postcodes.io (api 0) and Nominatim (api 1).      *)
(*                                                                         *)
(* One geocode_postcode call is the sequence                               *)
(*   Start -> TryPrimary [-> TryFallback [-> TotalFailure]]                *)
(* and no other step is enabled while a call is running, as the program is *)
(* single threaded.  Python's None is the empty tuple <<>>, a coordinate   *)
(* is the pair <<lat, lon>> (in tenths of a degree), so that the source's  *)
(* truth test "if coords:" is Len(coords) > 0.  Pauses are in tenths of a  *)
(* second.                                                                 *)
(***************************************************************************)
EXTENDS Integers, Sequences, FiniteSets, TLC

\* ---------------------------------------------------------------- bounds
MaxCount  == 2    \* no new call once a success counter reached this value
MaxStreak == 6    \* the observer's count of failed requests saturates here
MaxPause  == 8    \* the observer's sum of pauses saturates here

\* ------------------------------------------------------ program constants
APIS == {0, 1}
POSTCODES_IO == 0
NOMINATIM == 1
FAILURE_LIMIT == 5
NOMINATIM_DELAY == 7
POSTCODES_IO_DELAY == 1
NOMINATIM_EXTRA_DELAY == 4

None == <<>>

Min(a, b) == IF a < b THEN a ELSE b

VARIABLES
  current_api,      \* self.current_api
  request_counts,   \* self.request_counts
  failure_counts,   \* self.failure_counts
  api_disabled,     \* self.api_disabled
  pc,               \* position of the caller in geocode_postcode
  primary_api,      \* local of geocode_postcode
  fallback_api,     \* local of geocode_postcode
  result,           \* value returned by the last finished call
  attempts,         \* observer: the requests of the current/last call, in
                    \*   order: api, whether the provider function returned
                    \*   coordinates (ok), what it returned (ret), the
                    \*   api's failure count before the request (before)
                    \*   and the pause made right before it (wait)
  startPref,        \* observer: current_api when the call was entered
  startDis,         \* observer: api_disabled when the call was entered
  streak,           \* observer: failed requests per api since its last
                    \*   success or the last both-disabled reset
  sinceB,           \* observer: pause accumulated since the last Nominatim
                    \*   request (since construction when there was none)
  gapB,             \* observer: value of sinceB when Nominatim was last
                    \*   requested
  countB,           \* observer: 0, 1 or 2 (= two or more) Nominatim requests
  returnedBy,       \* observer: per api, the number of finished calls that
                    \*   returned a coordinate produced by that api
  allOk,            \* observer: every request made so far returned a
                    \*   coordinate
  reliable          \* environment: the set (empty or one api) of the apis
                    \*   that answer every request with a match from now on

vars == <<current_api, request_counts, failure_counts, api_disabled, pc,
          primary_api, fallback_api, result, attempts, startPref, startDis,
          streak, sinceB, gapB, countB, returnedBy, allOk, reliable>>

\* ------------------------------------------------------------- responses
\* What session.get / raise_for_status / response.json() hand to the code:
\*   "error": an exception before the payload is inspected (transport
\*            error, timeout, HTTP error status, undecodable body),
\*   "empty": a decoded body without a match ([] for Nominatim, a status
\*            other than 200 for postcodes.io),
\*   "match": a body with a match whose latitude / longitude fields are
\*            the raw values lat and lon.
RawValues == {"0", "51.5", "abc"}

Responses ==
  {[kind |-> "error", lat |-> "0", lon |-> "0"],
   [kind |-> "empty", lat |-> "0", lon |-> "0"]}
  \cup [kind : {"match"}, lat : RawValues, lon : RawValues]

\* float(x): defined on numerals only, raises ValueError otherwise.
FloatRaises(x) == x \notin {"0", "51.5"}
Float(x) == IF x = "51.5" THEN 515 ELSE 0

\* Variant: a pair with a zero latitude counts as false.
Truthy_Latitude(v) == Len(v) > 0 /\ v[1] # 0

\* "if coords:" on None or a tuple: true iff it is a non-empty tuple.
Truthy(v) == Len(v) > 0

\* Variant: the api is disabled one failure early.
RecordFailure_OneEarly(fc, dis, p) ==
  LET n == fc[p] + 1
  IN [fc  |-> [fc EXCEPT ![p] = n],
      dis |-> IF n >= FAILURE_LIMIT - 1 THEN [dis EXCEPT ![p] = TRUE]
                                        ELSE dis,
      ret |-> None]

\* The except-branch of a provider function: count the failure and disable
\* the api at the limit.
RecordFailure(fc, dis, p) ==
  LET n == fc[p] + 1
  IN [fc  |-> [fc EXCEPT ![p] = n],
      dis |-> IF n >= FAILURE_LIMIT THEN [dis EXCEPT ![p] = TRUE] ELSE dis,
      ret |-> None]

\* Variant: a success takes one failure off instead of all.
ResetFailures_Decrement(fc, p) ==
  [fc EXCEPT ![p] = IF @ > 0 THEN @ - 1 ELSE 0]

\* "Reset failure count on success".
ResetFailures(fc, p) == [fc EXCEPT ![p] = 0]

\* Body of a provider function for api p on response r.  The counter is
\* reset before the coordinates are converted, so a match whose fields do
\* not convert runs the except-branch from a counter of 0.
ProviderCall(p, r, fc, dis) ==
  CASE r.kind = "error" -> RecordFailure(fc, dis, p)
    [] r.kind = "empty" -> [fc |-> fc, dis |-> dis, ret |-> None]
    [] r.kind = "match" ->
         IF FloatRaises(r.lat) \/ FloatRaises(r.lon)
         THEN RecordFailure(ResetFailures(fc, p), dis, p)
         ELSE [fc  |-> ResetFailures(fc, p),
               dis |-> dis,
               ret |-> <<Float(r.lat), Float(r.lon)>>]

\* Variant: the function keeps the index of the function it was copied
\* from.
geocode_nominatim_CopiedIndex(r, fc, dis) ==
  ProviderCall(POSTCODES_IO, r, fc, dis)

geocode_nominatim(r, fc, dis) == ProviderCall(NOMINATIM, r, fc, dis)

geocode_postcodes_io(r, fc, dis) == ProviderCall(POSTCODES_IO, r, fc, dis)

\* time.sleep(t), seen by the observer of the Nominatim spacing.
Sleep(since, t) == Min(since + t, MaxPause)

\* ------------------------------------------------------------------ Init
Init ==
  /\ current_api = 0
  /\ request_counts = [i \in APIS |-> 0]
  /\ failure_counts = [i \in APIS |-> 0]
  /\ api_disabled = [i \in APIS |-> FALSE]
  /\ pc = "idle"
  /\ primary_api = 0
  /\ fallback_api = 1
  /\ result = None
  /\ attempts = <<>>
  /\ startPref = 0
  /\ startDis = [i \in APIS |-> FALSE]
  /\ streak = [i \in APIS |-> 0]
  /\ sinceB = 0
  /\ gapB = 0
  /\ countB = 0
  /\ returnedBy = [i \in APIS |-> 0]
  /\ allOk = TRUE
  /\ reliable = {}

\* --------------------------------------------------------- geocode_postcode
\* Variant: the both-disabled check is missing.
BothDisabled_Never(dis) == FALSE

\* Variant: the check joins the two flags with "or".
BothDisabled_Either(dis) == dis[0] \/ dis[1]

\* "If both APIs are disabled, try to re-enable them".
BothDisabled(dis) == dis[0] /\ dis[1]

ReEnabled(dis) == [[dis EXCEPT ![0] = FALSE] EXCEPT ![1] = FALSE]

\* Variant: the second assignment repeats the index of the first.
ZeroCounts_FirstOnly(fc) == [[fc EXCEPT ![0] = 0] EXCEPT ![0] = 0]

ZeroCounts(fc) == [[fc EXCEPT ![0] = 0] EXCEPT ![1] = 0]

\* "Determine which API to try first" and "Skip disabled APIs":
\* the pair <<primary_api, fallback_api>>.
Order(cur, dis) ==
  IF dis[cur] THEN <<1 - cur, cur>> ELSE <<cur, 1 - cur>>

\* Variant: the preference stays on the api that succeeded.
SwitchAfter_Stay(p) == p

\* Variant: toggle the preference instead of switching off api p.
SwitchAfter_Toggle(p) == 1 - current_api

\* Variant: the test of the disabled flag is missing.
Available_Always(dis, p) == TRUE

\* The tests "if not self.api_disabled[primary_api]" and
\* "if not self.api_disabled[fallback_api]".
Available(dis, p) == ~dis[p]

\* current_api after a success of api p: "Switch to Nominatim next" /
\* "Switch to postcodes.io next".
SwitchAfter(p) == IF p = POSTCODES_IO THEN 1 ELSE 0

\* Variant: the Nominatim branch counts under the index of postcodes.io.
CountRequest_FirstOnly(rc, p) == [rc EXCEPT ![POSTCODES_IO] = @ + 1]

\* "self.request_counts[...] += 1" of a success branch of api p.
CountRequest(rc, p) == [rc EXCEPT ![p] = @ + 1]

\* Variant: the next preference is the fallback of this call.
SwitchOnFailure_Fallback(cur) == fallback_api

\* "Switch API for next request even if both failed".
SwitchOnFailure(cur) == 1 - cur

\* Variant: no pause before Nominatim as the fallback.
DelayBefore_None(p, isFallback) == 0

\* time.sleep before the request: only before Nominatim as the fallback.
DelayBefore(p, isFallback) ==
  IF isFallback /\ p = NOMINATIM THEN NOMINATIM_DELAY ELSE 0

\* time.sleep after a successful request.
DelayAfter(p, isFallback) ==
  IF p = POSTCODES_IO THEN POSTCODES_IO_DELAY
  ELSE IF isFallback THEN NOMINATIM_EXTRA_DELAY ELSE NOMINATIM_DELAY

\* The responses the environment may give to a request to api p.
Answers(p) ==
  IF p \in reliable
  THEN {r \in Responses : r.kind = "match" /\ ~FloatRaises(r.lat)
                                           /\ ~FloatRaises(r.lon)}
  ELSE Responses

\* The provider function of api p.
Geocode(p, r, fc, dis) ==
  IF p = POSTCODES_IO THEN geocode_postcodes_io(r, fc, dis)
                      ELSE geocode_nominatim(r, fc, dis)

\* Entry of geocode_postcode up to the choice of primary and fallback.
Start ==
  /\ pc \in {"idle", "done"}
  /\ request_counts[0] < MaxCount
  /\ request_counts[1] < MaxCount
  /\ LET reset == BothDisabled(api_disabled)
         dis   == IF reset THEN ReEnabled(api_disabled) ELSE api_disabled
         ord   == Order(current_api, dis)
     IN /\ api_disabled' = dis
        /\ failure_counts' = IF reset THEN ZeroCounts(failure_counts)
                                      ELSE failure_counts
        /\ streak' = IF reset THEN [i \in APIS |-> 0] ELSE streak
        /\ primary_api' = ord[1]
        /\ fallback_api' = ord[2]
  /\ pc' = "primary"
  /\ result' = None
  /\ attempts' = <<>>
  /\ startPref' = current_api
  /\ startDis' = api_disabled
  /\ UNCHANGED <<current_api, request_counts, sinceB, gapB, countB,
                 returnedBy, allOk, reliable>>

\* One "try" block of geocode_postcode: the request to api p and, when it
\* returned coordinates, the bookkeeping and the return.
Attempt(p, isFallback, failPc) ==
  \E r \in Answers(p) :
    LET out    == Geocode(p, r, failure_counts, api_disabled)
        ok     == Truthy(out.ret)
        waited == Sleep(sinceB, DelayBefore(p, isFallback))
        atReq  == IF p = NOMINATIM THEN 0 ELSE waited
    IN /\ failure_counts' = out.fc
       /\ api_disabled' = out.dis
       /\ attempts' = Append(attempts,
                             [api |-> p, ok |-> out.ret # None,
                              ret |-> out.ret,
                              before |-> failure_counts[p],
                              wait |-> DelayBefore(p, isFallback)])
       /\ streak' = [streak EXCEPT
                       ![p] = IF out.ret # None THEN 0
                              ELSE Min(@ + 1, MaxStreak)]
       /\ gapB' = IF p = NOMINATIM THEN waited ELSE gapB
       /\ countB' = IF p = NOMINATIM THEN Min(countB + 1, 2) ELSE countB
       /\ IF ok
          THEN /\ request_counts' = CountRequest(request_counts, p)
               /\ current_api' = SwitchAfter(p)
               /\ sinceB' = Sleep(atReq, DelayAfter(p, isFallback))
               /\ result' = out.ret
               /\ pc' = "done"
          ELSE /\ sinceB' = atReq
               /\ pc' = failPc
               /\ UNCHANGED <<request_counts, current_api, result>>
       /\ returnedBy' = IF pc' = "done" /\ result' # None
                        THEN [returnedBy EXCEPT ![p] = @ + 1]
                        ELSE returnedBy
       /\ allOk' = (allOk /\ out.ret # None)
       /\ UNCHANGED <<primary_api, fallback_api, startPref, startDis,
                      reliable>>

\* The api of this try block is disabled: nothing is requested.
Skip(failPc) ==
  /\ pc' = failPc
  /\ UNCHANGED <<current_api, request_counts, failure_counts, api_disabled,
                 primary_api, fallback_api, result, attempts, startPref,
                 startDis, streak, sinceB, gapB, countB, returnedBy, allOk,
                 reliable>>

\* "Try primary API".
TryPrimary ==
  /\ pc = "primary"
  /\ IF Available(api_disabled, primary_api)
     THEN Attempt(primary_api, FALSE, "fallback")
     ELSE Skip("fallback")

\* "Try fallback API if primary failed".
TryFallback ==
  /\ pc = "fallback"
  /\ IF Available(api_disabled, fallback_api)
     THEN Attempt(fallback_api, TRUE, "failed")
     ELSE Skip("failed")

\* "Switch API for next request even if both failed" and return None.
TotalFailure ==
  /\ pc = "failed"
  /\ current_api' = SwitchOnFailure(current_api)
  /\ result' = None
  /\ pc' = "done"
  /\ UNCHANGED <<request_counts, failure_counts, api_disabled, primary_api,
                 fallback_api, attempts, startPref, startDis, streak,
                 sinceB, gapB, countB, returnedBy, allOk, reliable>>

\* Environment: from now on api p answers every request with a match.
Stabilise ==
  /\ pc \in {"idle", "done"}
  /\ reliable = {}
  /\ \E p \in APIS : reliable' = {p}
  /\ UNCHANGED <<current_api, request_counts, failure_counts, api_disabled,
                 pc, primary_api, fallback_api, result, attempts, startPref,
                 startDis, streak, sinceB, gapB, countB, returnedBy, allOk>>

CallStep == Start \/ TryPrimary \/ TryFallback \/ TotalFailure

Next == Start \/ TryPrimary \/ TryFallback \/ TotalFailure \/ Stabilise

Spec == Init /\ [][Next]_vars

\* The batch driver calls geocode_postcode once per record and a running
\* call always proceeds.
LiveSpec == Init /\ [][Next]_vars /\ WF_vars(CallStep)

TypeOK ==
  /\ current_api \in APIS
  /\ request_counts \in [APIS -> 0..MaxCount]
  /\ failure_counts \in [APIS -> 0..FAILURE_LIMIT]
  /\ api_disabled \in [APIS -> BOOLEAN]
  /\ pc \in {"idle", "primary", "fallback", "failed", "done"}
  /\ primary_api \in APIS /\ fallback_api = 1 - primary_api
  /\ Len(attempts) <= 2

\* ================================================================ claims
Returned == pc = "done"
InCall == pc \in {"primary", "fallback", "failed", "done"}
Last == attempts[Len(attempts)]
Other(p) == 1 - p
Coordinates == {<<Float(x), Float(y)>> : x, y \in {"0", "51.5"}}
\* api_disabled as the call saw it after its both-disabled check.
DisAfterCheck ==
  IF BothDisabled(startDis) THEN [i \in APIS |-> FALSE] ELSE startDis
Capped == request_counts[0] >= MaxCount \/ request_counts[1] >= MaxCount

\* C1 - Rotation invariant: when geocode_postcode has returned a
\* coordinate, from the primary or from the fallback attempt, current_api
\* is the api other than the one whose request produced it.
C1_Rotation ==
  (Returned /\ Truthy(result)) =>
     /\ Len(attempts) >= 1
     /\ Last.ok
     /\ current_api = Other(Last.api)

\* C1 witness: scenario B, postcodes.io failed as primary, Nominatim
\* succeeded as fallback, and the preference went back to postcodes.io.
C1_Witness ==
  /\ Returned /\ Truthy(result)
  /\ Len(attempts) = 2
  /\ attempts[1].api = POSTCODES_IO /\ ~attempts[1].ok
  /\ attempts[2].api = NOMINATIM /\ attempts[2].ok
  /\ current_api = POSTCODES_IO

\* C2 - Disable threshold: an api whose requests failed 5 times in a row
\* (no success of it and no both-disabled reset in between) is disabled,
\* and after only 4 such failures it is not.
C2_DisableThreshold ==
  \A p \in APIS :
    /\ streak[p] >= FAILURE_LIMIT => api_disabled[p]
    /\ streak[p] = FAILURE_LIMIT - 1 => ~api_disabled[p]

\* C3 - Failure bookkeeping: failure_counts[p] is the number of failed
\* requests to p (exceptions and empty results alike) since p's last
\* success or the last both-disabled reset.
C3_FailureBookkeeping ==
  \A p \in APIS : streak[p] < MaxStreak => failure_counts[p] = streak[p]

\* C4 - Never permanently stuck: once one api answers every request sent
\* to it with a match, and calls keep being made, some call returns a
\* coordinate (or the model's bound on the success counters is reached).
C4_NeverStuck ==
  (reliable # {}) ~> ((Returned /\ Truthy(result)) \/ Capped)

\* C5 - Rate-limit spacing: before every request to Nominatim, the first
\* one included, the geocoder has paused for at least NOMINATIM_DELAY
\* since the previous request to Nominatim.
C5_RateLimitSpacing == countB > 0 => gapB >= NOMINATIM_DELAY

\* C6 - Both-disabled recovery: in a call entered with both apis disabled,
\* before any request both apis are enabled with a failure count of 0 and
\* the preference is untouched; the requests then go in the order of a
\* call on two healthy apis: current_api first, the other one only after
\* the first failed.
C6_BothDisabledRecovery ==
  (InCall /\ BothDisabled(startDis)) =>
     /\ (pc = "primary") =>
          /\ attempts = <<>>
          /\ \A p \in APIS : ~api_disabled[p] /\ failure_counts[p] = 0
          /\ current_api = startPref
          /\ primary_api = startPref /\ fallback_api = Other(startPref)
     /\ (pc # "primary") => Len(attempts) >= 1
     /\ Len(attempts) >= 1 => attempts[1].api = startPref
     /\ Len(attempts) = 2 =>
          ~attempts[1].ok /\ attempts[2].api = Other(startPref)
     /\ (pc \in {"failed", "done"} /\ ~attempts[1].ok) => Len(attempts) = 2

\* C6 witness: a call entered with both apis disabled has requested the
\* preferred api and then the other one.
C6_Witness ==
  /\ Returned /\ BothDisabled(startDis)
  /\ Len(attempts) = 2
  /\ attempts[1].api = startPref

\* C7 - Fallback only on primary failure: when the primary's request
\* returned a coordinate, it is the only request of the call and the call
\* returned that coordinate.
C7_NoFallbackAfterSuccess ==
  (InCall /\ Len(attempts) >= 1 /\ attempts[1].ok) =>
     /\ Len(attempts) = 1
     /\ Returned
     /\ result = attempts[1].ret

\* C7 witness: scenario A, postcodes.io preferred and healthy, answers
\* with the coordinate (0, 0); Nominatim is not requested.
C7_Witness ==
  /\ Returned
  /\ attempts # <<>> /\ attempts[1].ok
  /\ attempts[1].api = POSTCODES_IO /\ startPref = POSTCODES_IO
  /\ result = <<0, 0>>
  /\ current_api = NOMINATIM

\* C8 - Skip-disabled ordering: in a call entered with one api disabled
\* and the other one enabled, the first and only request goes to the
\* enabled one, whether the disabled api is the preferred one or not.
C8_SkipDisabled ==
  \A p \in APIS :
    (InCall /\ startDis[p] /\ ~startDis[Other(p)]) =>
       /\ Len(attempts) <= 1
       /\ \A i \in 1..Len(attempts) : attempts[i].api = Other(p)
       /\ (pc # "primary") => Len(attempts) = 1

\* C8 witness: scenario C, postcodes.io was disabled by its 5th failure
\* and is preferred; the call requested Nominatim only, which failed.
C8_Witness ==
  /\ Returned
  /\ startPref = POSTCODES_IO
  /\ startDis[POSTCODES_IO] /\ ~startDis[NOMINATIM]
  /\ Len(attempts) = 1 /\ attempts[1].api = NOMINATIM /\ ~attempts[1].ok
  /\ result = None

\* C9 - Result contract: a finished call has returned None or a
\* coordinate; a coordinate is the unchanged return value of the first
\* request, in the order primary then fallback, that produced one; None
\* is returned exactly when every api that was not disabled was requested
\* in this call and failed.
C9_ResultContract ==
  Returned =>
     /\ result = None \/ result \in Coordinates
     /\ Len(attempts) >= 1 => attempts[1].api = primary_api
     /\ Len(attempts) = 2 => attempts[2].api = fallback_api
     /\ (result # None) =>
          \E i \in 1..Len(attempts) :
             /\ attempts[i].ok
             /\ result = attempts[i].ret
             /\ \A j \in 1..(i - 1) : ~attempts[j].ok
     /\ (result = None) <=>
          \A p \in APIS :
             ~DisAfterCheck[p] =>
                \E i \in 1..Len(attempts) :
                   attempts[i].api = p /\ ~attempts[i].ok

\* C9 witness: the primary failed with its failure count at the limit,
\* which disabled it, and the fallback failed too: None.
C9_Witness ==
  /\ Returned /\ result = None
  /\ Len(attempts) = 2
  /\ api_disabled[attempts[1].api] /\ ~DisAfterCheck[attempts[1].api]

\* C9 witness of the other result: the fallback's coordinate.
C9_WitnessCoordinate ==
  /\ Returned /\ result \in Coordinates
  /\ Len(attempts) = 2 /\ result = attempts[2].ret

\* C10 - Failure-count reset: a request to p that returns a coordinate
\* leaves failure_counts[p] = 0 whatever it was, and leaves
\* api_disabled[p] as it was.
C10_ResetOnSuccess ==
  [][\A p \in APIS :
       (/\ Len(attempts') = Len(attempts) + 1
        /\ attempts'[Len(attempts')].api = p
        /\ attempts'[Len(attempts')].ok)
       => /\ failure_counts'[p] = 0
          /\ api_disabled'[p] = api_disabled[p]]_vars

\* C10 witness: a success of an api that had 4 consecutive failures.
C10_Witness ==
  /\ Returned /\ attempts # <<>>
  /\ Last.ok /\ Last.before = FAILURE_LIMIT - 1
  /\ failure_counts[Last.api] = 0

\* ---------------------------------------------------- steps, as observed
\* This step issued a request to api p.
Requested(p) ==
  /\ Len(attempts') = Len(attempts) + 1
  /\ attempts'[Len(attempts')].api = p
\* This step is the both-disabled reset at the entry of a call.
ResetStep ==
  /\ pc \in {"idle", "done"} /\ pc' = "primary"
  /\ api_disabled[0] /\ api_disabled[1]
\* A disabled flag goes back to false in the both-disabled reset only.
OnlyResetEnables ==
  \A p \in APIS : (api_disabled[p] /\ ~api_disabled'[p]) => ResetStep

\* C11 - Recovery only by global reset: api_disabled[p] goes from true to
\* false only in the both-disabled reset at the entry of a call; a call
\* entered with exactly one api disabled leaves that api disabled at every
\* step.
C11_RecoveryOnlyByReset ==
  /\ [][OnlyResetEnables]_vars
  /\ [](\A p \in APIS :
          (InCall /\ startDis[p] /\ ~startDis[Other(p)]) => api_disabled[p])

\* C11 witness: postcodes.io is disabled alone and stayed so through a call
\* in which Nominatim returned a coordinate.
C11_Witness ==
  /\ Returned
  /\ startDis[POSTCODES_IO] /\ ~startDis[NOMINATIM]
  /\ api_disabled[POSTCODES_IO]
  /\ Truthy(result)

\* C12 - Cumulative success counts: request_counts[p] is the number of
\* finished calls that returned a coordinate produced by p, so it is never
\* decreased or reset, and the two counters sum to the number of calls that
\* returned a coordinate.
C12_SuccessCounts ==
  /\ \A p \in APIS : request_counts[p] = returnedBy[p]
  /\ request_counts[0] + request_counts[1] = returnedBy[0] + returnedBy[1]

\* C12 witness: both counters are positive after a both-disabled reset and
\* a failed request.
C12_Witness ==
  /\ Returned /\ result = None
  /\ request_counts[POSTCODES_IO] >= 1 /\ request_counts[NOMINATIM] >= 1
  /\ BothDisabled(startDis)

\* C13 - Total-failure rotation: when a call has returned None, current_api
\* is the api other than the one preferred when the call was entered.
C13_FailureRotation ==
  (Returned /\ result = None) => current_api = Other(startPref)

\* C13 witness: the preferred api was disabled, so the order was swapped
\* and the fallback was skipped; the only request failed.
C13_Witness ==
  /\ Returned /\ result = None
  /\ startDis[startPref] /\ ~startDis[Other(startPref)]
  /\ primary_api = Other(startPref)
  /\ Len(attempts) = 1
  /\ current_api = Other(startPref)

\* C14 - Bounded attempts: a call issues one or two requests, never two to
\* the same api, and the second one only after the first one failed.
C14_BoundedAttempts ==
  /\ Len(attempts) <= 2
  /\ (pc \in {"fallback", "failed", "done"}) => Len(attempts) >= 1
  /\ Len(attempts) = 2 =>
       /\ attempts[1].api # attempts[2].api
       /\ ~attempts[1].ok

\* C14 witness: a call entered with both apis disabled made two requests.
C14_Witness ==
  /\ Returned
  /\ startDis[0] /\ startDis[1]
  /\ Len(attempts) = 2 /\ attempts[2].ok

\* C15 - No request to a disabled provider: a request goes only to an api
\* whose disabled flag is false at that moment, and a failed primary, even
\* one disabled by this very failure, is followed by the request to a
\* fallback that is not disabled.
C15_NoRequestToDisabled ==
  /\ [][\A p \in APIS : Requested(p) => ~api_disabled[p]]_vars
  /\ []((pc \in {"failed", "done"} /\ Len(attempts) >= 1
          /\ ~attempts[1].ok /\ ~api_disabled[fallback_api])
        => (Len(attempts) = 2 /\ attempts[2].api = fallback_api))

\* C15 witness: the primary was disabled by its failure and the fallback
\* was requested and returned a coordinate.
C15_Witness ==
  /\ Returned
  /\ Len(attempts) = 2
  /\ ~DisAfterCheck[attempts[1].api] /\ api_disabled[attempts[1].api]
  /\ attempts[2].ok

\* C16 - ProviderHealth invariant: between calls a disabled api has a
\* failure count of at least FAILURE_LIMIT, and its flag stays true until a
\* both-disabled reset.
C16_HealthInvariant ==
  /\ []((pc \in {"idle", "done"}) =>
          \A p \in APIS : api_disabled[p] => failure_counts[p] >= FAILURE_LIMIT)
  /\ [][OnlyResetEnables]_vars

\* C16 witness: between calls, both apis are disabled.
C16_Witness ==
  /\ Returned
  /\ api_disabled[0] /\ api_disabled[1]

\* C17 - Pause before rate-limited fallback: a fallback request to
\* Nominatim comes after a pause of NOMINATIM_DELAY made in this call after
\* the primary's failure; a fallback request to postcodes.io comes after no
\* pause.
C17_PauseBeforeFallback ==
  Len(attempts) = 2 =>
     /\ attempts[2].api = NOMINATIM =>
          (attempts[2].wait = NOMINATIM_DELAY /\ gapB >= NOMINATIM_DELAY)
     /\ attempts[2].api = POSTCODES_IO => attempts[2].wait = 0

\* C17 witness: Nominatim was requested as the fallback.
C17_Witness ==
  /\ Len(attempts) = 2 /\ attempts[2].api = NOMINATIM
  /\ ~attempts[1].ok

\* C17 witness of the other case: postcodes.io was requested as the
\* fallback.
C17_WitnessPostcodesIo ==
  /\ Len(attempts) = 2 /\ attempts[2].api = POSTCODES_IO

\* C18 - Even load under success: as long as every request returned a
\* coordinate, the calls use postcodes.io, Nominatim, postcodes.io, ... in
\* turn, one request each, and the success counters differ by at most 1.
C18_EvenLoad ==
  allOk =>
    LET n == request_counts[0] + request_counts[1]
    IN /\ request_counts[0] - request_counts[1] \in {0, 1}
       /\ (pc \in {"idle", "done", "primary"}) => current_api = n % 2
       /\ (Returned /\ n >= 1) =>
            (Len(attempts) = 1 /\ attempts[1].api = (n - 1) % 2)

\* C18 witness: three calls, all successful, the third one to postcodes.io.
C18_Witness ==
  /\ allOk /\ Returned
  /\ request_counts[POSTCODES_IO] = 2 /\ request_counts[NOMINATIM] = 1
  /\ attempts[1].api = POSTCODES_IO

\* C19 - Frame of health records: a step other than the both-disabled
\* reset leaves failure_counts, api_disabled and request_counts of every
\* api it does not request unchanged.
C19_Frame ==
  [][\A q \in APIS :
       (~Requested(q) /\ ~ResetStep) =>
          /\ failure_counts'[q] = failure_counts[q]
          /\ api_disabled'[q] = api_disabled[q]
          /\ request_counts'[q] = request_counts[q]]_vars

\* C19 witness: Nominatim returned a coordinate as primary; postcodes.io
\* was not requested and keeps its 4 failures and its success count.
C19_Witness ==
  /\ Returned
  /\ Len(attempts) = 1 /\ attempts[1].api = NOMINATIM /\ attempts[1].ok
  /\ failure_counts[POSTCODES_IO] = FAILURE_LIMIT - 1
  /\ request_counts[POSTCODES_IO] = 1

\* C20 - Bound on the failure counter: 0 <= failure_counts[p] <=
\* FAILURE_LIMIT, failure_counts[p] = FAILURE_LIMIT iff api_disabled[p],
\* and a request is issued only while at most one api is disabled.
C20_CounterBound ==
  /\ [](\A p \in APIS :
          /\ failure_counts[p] \in 0..FAILURE_LIMIT
          /\ (failure_counts[p] = FAILURE_LIMIT) <=> api_disabled[p])
  /\ [][(\E p \in APIS : Requested(p)) =>
          ~(api_disabled[0] /\ api_disabled[1])]_vars

\* C20 witness: a request was made while the other api was disabled with
\* its counter at the limit.
C20_Witness ==
  /\ InCall /\ Len(attempts) = 1
  /\ api_disabled[Other(attempts[1].api)]
  /\ failure_counts[Other(attempts[1].api)] = FAILURE_LIMIT
  /\ startDis[Other(attempts[1].api)]

====
